---- MODULE Spec2Model ----
(***************************************************************************)
(* ai-context: src/src/cli.ts.  main resolves the output path and calls    *)
(* generateContextFile, which scans the glob patterns, sorts the matched   *)
(* paths, reads every file and writes one Markdown document.               *)
(*                                                                         *)
(* Strings whose characters matter (relative paths, patterns, file text)   *)
(* are sequences of one-character strings.  Output and config paths are    *)
(* sequences of path segments.  finalMarkdownContent is the sequence of    *)
(* the chunks appended by each "+=", a chunk being the sequence of its     *)
(* template parts (literal text, interpolated value, ...), every part a    *)
(* sequence of strings.                                                    *)
(***************************************************************************)
EXTENDS Integers, Sequences, FiniteSets, TLC

VARIABLES
    cliOptions,        \* program.opts(): [config, output]
    outputSource,      \* program.getOptionValueSource('output')
    userConfig,        \* what loadUserConfiguration returned: [patterns, output]
    unreadable,        \* file system: the files whose Bun.file(..).text() rejects
    globNegation,      \* what this build's Glob.scan does with a leading '!'
    clock,             \* new Date()
    pc,                \* position of the run
    finalOutputFilePath,
    resolvedConfig,    \* [patterns, outputFilePath, configFilePath]
    patternIdx,        \* index of the pattern the for-of loop is at
    matchedFilePaths,  \* the Set, in insertion order
    filesToInclude,
    fileIdx,           \* index of the file the read loop is at
    finalMarkdownContent,
    writes,            \* the Bun.write calls that succeeded: [path, data]
    console,           \* console output: <<level, message, argument>>
    scans,             \* number of glob.scan calls made
    reads,             \* the paths Bun.file(..).text() was called on
    exitCode,          \* -1 while running
    run,               \* 1, or 2 in the repeated invocation
    firstRun           \* the patterns and the writes of invocation 1

vars == <<cliOptions, outputSource, userConfig, unreadable, globNegation, clock, pc,
          finalOutputFilePath, resolvedConfig, patternIdx, matchedFilePaths,
          filesToInclude, fileIdx, finalMarkdownContent, writes, console, scans,
          reads, exitCode, run, firstRun>>

----------------------------------------------------------------------------
(* Bounds *)
\* longest pattern list of a configuration
MaxPatterns == 2
\* longest pattern list where every --output / output combination is explored
MaxPatternsResolve == 1

----------------------------------------------------------------------------
(* JavaScript values *)

Undefined == <<"<undefined>">>

\* JS truthiness of an optional string: undefined and '' are falsy
Truthy(s) == s # Undefined /\ s # <<>>

\* UTF-16 code units of the characters in use
CharCode(c) ==
    CASE c = "\n" -> 10
      [] c = " "  -> 32
      [] c = "!"  -> 33
      [] c = "*"  -> 42
      [] c = "."  -> 46
      [] c = "/"  -> 47
      [] c = "\\" -> 92
      [] c = "a"  -> 97
      [] c = "b"  -> 98
      [] c = "c"  -> 99
      [] c = "d"  -> 100
      [] c = "e"  -> 101
      [] c = "n"  -> 110
      [] c = "o"  -> 111
      [] c = "s"  -> 115
      [] c = "t"  -> 116
      [] c = "v"  -> 118
      [] c = "x"  -> 120
      [] c = "y"  -> 121
      [] c = "z"  -> 122

\* a < b as Array.prototype.sort() without comparator orders strings
RECURSIVE StringLess(_, _)
StringLess(a, b) ==
    IF b = <<>> THEN FALSE
    ELSE IF a = <<>> THEN TRUE
    ELSE IF CharCode(Head(a)) # CharCode(Head(b))
         THEN CharCode(Head(a)) < CharCode(Head(b))
         ELSE StringLess(Tail(a), Tail(b))

Range(s) == {s[i] : i \in 1..Len(s)}

RECURSIVE Insert(_, _)
Insert(x, sorted) ==
    IF sorted = <<>> THEN <<x>>
    ELSE IF StringLess(x, Head(sorted)) THEN <<x>> \o sorted
    ELSE <<Head(sorted)>> \o Insert(x, Tail(sorted))

\* mutation: the array is left in the Set's insertion order
ArraySort_Unsorted(s) == s

\* Array.from(set).sort()
RECURSIVE ArraySort(_)
ArraySort(s) ==
    IF s = <<>> THEN <<>> ELSE Insert(Head(s), ArraySort(Tail(s)))

\* Set.prototype.add on the insertion-ordered Set
SetAdd(set, x) == IF x \in Range(set) THEN set ELSE Append(set, x)

RECURSIVE SetAddAll(_, _)
SetAddAll(set, xs) ==
    IF xs = <<>> THEN set ELSE SetAddAll(SetAdd(set, Head(xs)), Tail(xs))

Whitespace == {" ", "\n"}

RECURSIVE TrimStart(_)
TrimStart(s) ==
    IF s # <<>> /\ Head(s) \in Whitespace THEN TrimStart(Tail(s)) ELSE s

RECURSIVE TrimEnd(_)
TrimEnd(s) ==
    IF s # <<>> /\ s[Len(s)] \in Whitespace
    THEN TrimEnd(SubSeq(s, 1, Len(s) - 1)) ELSE s

\* String.prototype.trim
Trim(s) == TrimEnd(TrimStart(s))

\* mutation: the path is used as the scan returned it
NormalizePath_Identity(p) == p

\* relativeFilePath.replace(/\\/g, '/')
NormalizePath(p) == [i \in 1..Len(p) |-> IF p[i] = "\\" THEN "/" ELSE p[i]]

\* String.prototype.substring(1)
Substring1(s) == IF s = <<>> THEN <<>> ELSE Tail(s)

Max(S) == CHOOSE x \in S : \A y \in S : y <= x

\* mutation: a leading dot of the file name starts an extension
Extname_LeadingDot(p) ==
    LET end       == Max({0} \cup {i \in 1..Len(p) : p[i] # "/"})
        startPart == Max({0} \cup {i \in 1..(end - 1) : p[i] = "/"}) + 1
        startDot  == Max({0} \cup {i \in startPart..end : p[i] = "."})
    IN  IF startDot = 0 THEN <<>> ELSE SubSeq(p, startDot, end)

\* path.extname (posix): the last path component from its last '.', or ''
\* when it has no '.', when its only '.' is its first character, or when it
\* is '..'
Extname(p) ==
    LET end       == Max({0} \cup {i \in 1..Len(p) : p[i] # "/"})
        startPart == Max({0} \cup {i \in 1..(end - 1) : p[i] = "/"}) + 1
        startDot  == Max({0} \cup {i \in startPart..end : p[i] = "."})
        preDotState ==
            IF startDot = 0 \/ startDot = startPart THEN 0
            ELSE IF p[startPart] = "." THEN 1 ELSE -1
    IN  IF \/ startDot = 0
           \/ end = 0
           \/ preDotState = 0
           \/ (preDotState = 1 /\ startDot = end - 1 /\ startDot = startPart + 1)
        THEN <<>>
        ELSE SubSeq(p, startDot, end)

----------------------------------------------------------------------------
(* Paths of the output and the config file, as segment sequences *)

Cwd == <<"/", "work">>

IsAbsolute(p) == p # <<>> /\ p[1] = "/"

\* path.resolve(p): '' resolves to the working directory
PathResolve(p) == IF IsAbsolute(p) THEN p ELSE Cwd \o p

RECURSIVE CommonPrefixLen(_, _)
CommonPrefixLen(a, b) ==
    IF a = <<>> \/ b = <<>> \/ Head(a) # Head(b) THEN 0
    ELSE 1 + CommonPrefixLen(Tail(a), Tail(b))

\* path.relative(from, to) of two absolute paths
PathRelative(from, to) ==
    LET n == CommonPrefixLen(from, to)
    IN  [i \in 1..(Len(from) - n) |-> ".."] \o SubSeq(to, n + 1, Len(to))

defaultConfigFileName == <<"ai-context.config.ts">>
defaultOutputFileName == <<"prompt.md">>

----------------------------------------------------------------------------
(* The working directory and the glob patterns of the configurations *)

F_ts  == <<"b", ".", "t", "s">>
F_win == <<"a", ".", "d", "\\", "c">>
F_dot == <<".", "e", "n", "v">>

FileSystem == {F_ts, F_win, F_dot}

\* what Bun.file(f).text() resolves to
FileText(f) ==
    CASE f = F_ts  -> <<" ", "x", " ", "\n", "y", "\n">>
      [] f = F_win -> <<"z">>
      [] f = F_dot -> <<"\n", " ">>

P_ts   == <<"*", ".", "t", "s">>
P_all  == <<"*", "*">>
P_dot  == <<".", "e", "*">>
P_none == <<"*", ".", "x">>
P_not  == <<"!", "*", ".", "t", "s">>

PatternUniverse == {P_ts, P_all, P_dot, P_none, P_not}

\* the files of the working directory a pattern without '!' matches
GlobMatches(pattern) ==
    CASE pattern = P_ts   -> {F_ts}
      [] pattern = P_all  -> {F_ts, F_win}
      [] pattern = P_dot  -> {F_dot}
      [] pattern = P_none -> {}
      [] OTHER            -> {}

StartsWithBang(pattern) == pattern # <<>> /\ pattern[1] = "!"

\* new Glob(pattern).scan('.'): the pattern is handed to Glob as written.
\* A leading '!' is left to Glob: a build either negates the match or finds
\* no file of that literal name.
GlobScan(pattern) ==
    IF StartsWithBang(pattern)
    THEN IF globNegation = "negate"
         THEN FileSystem \ GlobMatches(Tail(pattern))
         ELSE {}
    ELSE GlobMatches(pattern)

\* the orders in which an async iteration may yield the files of S
Orders(S) ==
    {s \in [1..Cardinality(S) -> S] : \A i, j \in 1..Cardinality(S) : s[i] = s[j] => i = j}

PatternLists(n) == UNION {[1..k -> PatternUniverse] : k \in 0..n}

\* loadUserConfiguration accepts: patterns an array of strings, output falsy or a string
ValidUserConfig(c) ==
    /\ c.patterns \in Seq(PatternUniverse)
    /\ (Truthy(c.output) => c.output \in Seq(STRING))

----------------------------------------------------------------------------
(* The chunks appended to finalMarkdownContent and the sentinel documents *)

NoPatternsSentinel ==
    << << <<"# ", "No", "files", "matched", "the", "provided", "patterns.", "\n">> >> >>

NoMatchSentinel ==
    << << <<"# ", "No", "files", "matched", "any", "of", "the", "provided", "patterns.", "\n">> >> >>

HeaderTimestamp(now) ==
    << <<"<!-- Context generated by ai-context on ">>, <<ToString(now)>>, <<" -->\n">> >>

HeaderConfig(rel) ==
    << <<"<!-- Config file: ">>, rel, <<" -->\n\n">> >>

PathComment(normalizedPathComment) ==
    << <<"// path: ">>, normalizedPathComment, <<"\n">> >>

\* three U+0060 characters, which a TLA+ string cannot hold
TripleBacktick == "<U+0060><U+0060><U+0060>"

FenceOpen(extension) == << <<TripleBacktick>>, extension, <<"\n">> >>

FenceBody(fileContent) == << Trim(fileContent), <<"\n">> >>

FenceClose == << <<TripleBacktick, "\n\n">> >>

Log(level, message, argument) == <<level, message, argument>>

----------------------------------------------------------------------------
(* Initial states: the command line is parsed and the config file loaded *)

CliOutputs    == {Undefined, <<>>, <<"a.md">>, <<"prompt.md">>}
ConfigOutputs == {Undefined, <<>>, <<"b.md">>}
ConfigPaths   == {defaultConfigFileName, <<"/", "etc", "c.ts">>}

\* the state main and generateContextFile start from
Start ==
    /\ outputSource = IF cliOptions.output = Undefined THEN "undefined" ELSE "cli"
    /\ ValidUserConfig(userConfig)
    /\ unreadable \in SUBSET FileSystem
    /\ globNegation \in {"negate", "literal"}
    /\ clock = 1
    /\ pc = "main"
    /\ finalOutputFilePath = Undefined
    /\ resolvedConfig = Undefined
    /\ patternIdx = 1
    /\ matchedFilePaths = <<>>
    /\ filesToInclude = <<>>
    /\ fileIdx = 1
    /\ finalMarkdownContent = <<>>
    /\ writes = <<>>
    /\ console = <<>>
    /\ scans = 0
    /\ reads = <<>>
    /\ exitCode = -1
    /\ run = 1
    /\ firstRun = [patterns |-> <<>>, writes |-> <<>>]

\* every pattern list up to MaxPatterns; --output not given
Init ==
    /\ cliOptions \in [config : ConfigPaths, output : {Undefined}]
    /\ userConfig \in [patterns : PatternLists(MaxPatterns), output : {Undefined, <<"b.md">>}]
    /\ Start

\* every combination of --output, --config and the config file's output
InitResolve ==
    /\ cliOptions \in [config : ConfigPaths, output : CliOutputs]
    /\ userConfig \in [patterns : PatternLists(MaxPatternsResolve), output : ConfigOutputs]
    /\ Start

\* every pattern list up to MaxPatterns, for the run that is repeated
InitTwice ==
    /\ cliOptions = [config |-> defaultConfigFileName, output |-> Undefined]
    /\ userConfig \in [patterns : PatternLists(MaxPatterns), output : {Undefined}]
    /\ Start

----------------------------------------------------------------------------
(* main, up to the call of generateContextFile *)

OutputSourceWon(source, cliOutput, configOutput) ==
    IF source = "cli" /\ Truthy(cliOutput) THEN "CLI"
    ELSE IF Truthy(configOutput) THEN "config file"
    ELSE "default"

\* the if / else-if / else that assigns finalOutputFilePath
ResolveOutput(source, cliOutput, configOutput) ==
    IF source = "cli" /\ Truthy(cliOutput) THEN cliOutput
    ELSE IF Truthy(configOutput) THEN configOutput
    ELSE defaultOutputFileName

Main ==
    /\ pc = "main"
    /\ finalOutputFilePath' =
           ResolveOutput(outputSource, cliOptions.output, userConfig.output)
    /\ resolvedConfig' =
           [patterns       |-> userConfig.patterns,
            outputFilePath |-> PathResolve(finalOutputFilePath'),
            configFilePath |-> PathResolve(cliOptions.config)]
    /\ console' = console
           \o <<Log("log", "Output path set from",
                    <<OutputSourceWon(outputSource, cliOptions.output, userConfig.output)>>)>>
           \o (IF userConfig.patterns = <<>> /\ ~Truthy(userConfig.output)
               THEN <<Log("warn", "No glob patterns found in config file", <<>>)>>
               ELSE <<Log("log", "Parsed glob patterns from config", <<>>)>>)
           \o <<Log("log", "Final output will be written to", resolvedConfig'.outputFilePath)>>
    /\ pc' = "generate"
    /\ UNCHANGED <<cliOptions, outputSource, userConfig, unreadable, globNegation, clock,
                   patternIdx, matchedFilePaths, filesToInclude, fileIdx,
                   finalMarkdownContent, writes, scans, reads, exitCode, run, firstRun>>

----------------------------------------------------------------------------
(* generateContextFile *)

\* await Bun.write(config.outputFilePath, data) outside any try: it resolves
\* and the function returns, or it rejects and the rejection leaves the function
WriteSentinel(data) ==
    \E ok \in BOOLEAN :
        IF ok
        THEN /\ writes' = Append(writes, [path |-> resolvedConfig.outputFilePath, data |-> data])
             /\ pc' = "returned"
        ELSE /\ writes' = writes
             /\ pc' = "rejected"

\* mutation: the sentinel write is skipped, as the warning announces
NoPatterns_NoWrite ==
    /\ pc = "generate"
    /\ resolvedConfig.patterns = <<>>
    /\ console' = Append(console, Log("warn", "No patterns to process", <<>>))
    /\ pc' = "returned"
    /\ UNCHANGED <<cliOptions, outputSource, userConfig, unreadable, globNegation, clock,
                   finalOutputFilePath, resolvedConfig, patternIdx, matchedFilePaths,
                   filesToInclude, fileIdx, finalMarkdownContent, writes, scans, reads,
                   exitCode, run, firstRun>>

\* config.patterns.length === 0
NoPatterns ==
    /\ pc = "generate"
    /\ resolvedConfig.patterns = <<>>
    /\ console' = Append(console, Log("warn", "No patterns to process", <<>>))
    /\ WriteSentinel(NoPatternsSentinel)
    /\ UNCHANGED <<cliOptions, outputSource, userConfig, unreadable, globNegation, clock,
                   finalOutputFilePath, resolvedConfig, patternIdx, matchedFilePaths,
                   filesToInclude, fileIdx, finalMarkdownContent, scans, reads,
                   exitCode, run, firstRun>>

\* one iteration of the for-of over config.patterns: the scan yields its files
\* in some order and each is added to the Set
ScanPattern ==
    /\ pc = "generate"
    /\ resolvedConfig.patterns # <<>>
    /\ patternIdx <= Len(resolvedConfig.patterns)
    /\ \E order \in Orders(GlobScan(resolvedConfig.patterns[patternIdx])) :
           matchedFilePaths' = SetAddAll(matchedFilePaths, order)
    /\ console' = Append(console, Log("log", "Scanning for pattern",
                                      resolvedConfig.patterns[patternIdx]))
    /\ scans' = scans + 1
    /\ patternIdx' = patternIdx + 1
    /\ UNCHANGED <<cliOptions, outputSource, userConfig, unreadable, globNegation, clock,
                   pc, finalOutputFilePath, resolvedConfig, filesToInclude, fileIdx,
                   finalMarkdownContent, writes, reads, exitCode, run, firstRun>>

\* mutation: the header is built and written although nothing matched
NoMatch_WritesHeader ==
    /\ pc = "generate"
    /\ resolvedConfig.patterns # <<>>
    /\ patternIdx > Len(resolvedConfig.patterns)
    /\ ArraySort(matchedFilePaths) = <<>>
    /\ filesToInclude' = <<>>
    /\ console' = Append(console, Log("log", "No files found matching any of the patterns", <<>>))
    /\ WriteSentinel(<<HeaderTimestamp(clock),
                       HeaderConfig(PathRelative(Cwd, resolvedConfig.configFilePath))>>)
    /\ UNCHANGED <<cliOptions, outputSource, userConfig, unreadable, globNegation, clock,
                   finalOutputFilePath, resolvedConfig, patternIdx, matchedFilePaths,
                   fileIdx, finalMarkdownContent, scans, reads, exitCode, run, firstRun>>

\* filesToInclude.length === 0 after the sort
NoMatch ==
    /\ pc = "generate"
    /\ resolvedConfig.patterns # <<>>
    /\ patternIdx > Len(resolvedConfig.patterns)
    /\ ArraySort(matchedFilePaths) = <<>>
    /\ filesToInclude' = <<>>
    /\ console' = Append(console, Log("log", "No files found matching any of the patterns", <<>>))
    /\ WriteSentinel(NoMatchSentinel)
    /\ UNCHANGED <<cliOptions, outputSource, userConfig, unreadable, globNegation, clock,
                   finalOutputFilePath, resolvedConfig, patternIdx, matchedFilePaths,
                   fileIdx, finalMarkdownContent, scans, reads, exitCode, run, firstRun>>

\* the sort, the "Found n unique file(s)" log and the two header lines
BuildHeader ==
    /\ pc = "generate"
    /\ resolvedConfig.patterns # <<>>
    /\ patternIdx > Len(resolvedConfig.patterns)
    /\ ArraySort(matchedFilePaths) # <<>>
    /\ filesToInclude' = ArraySort(matchedFilePaths)
    /\ console' = Append(console, Log("log", "Found unique file(s) to include", <<>>))
    /\ finalMarkdownContent' =
           <<HeaderTimestamp(clock),
             HeaderConfig(PathRelative(Cwd, resolvedConfig.configFilePath))>>
    /\ fileIdx' = 1
    /\ pc' = "read"
    /\ UNCHANGED <<cliOptions, outputSource, userConfig, unreadable, globNegation, clock,
                   finalOutputFilePath, resolvedConfig, patternIdx, matchedFilePaths,
                   writes, scans, reads, exitCode, run, firstRun>>

\* the four "+=" of the try block, which run once the read has resolved
Section(relativeFilePath, fileContent) ==
    LET normalizedPathComment == NormalizePath(relativeFilePath)
        extension == Substring1(Extname(normalizedPathComment))
    IN  <<PathComment(normalizedPathComment),
          FenceOpen(extension),
          FenceBody(fileContent),
          FenceClose>>

\* mutation: the path comment is appended before the read is awaited
ReadFile_CommentFirst ==
    /\ pc = "read"
    /\ fileIdx <= Len(filesToInclude)
    /\ LET relativeFilePath == filesToInclude[fileIdx]
       IN  /\ reads' = Append(reads, relativeFilePath)
           /\ IF relativeFilePath \notin unreadable
              THEN /\ finalMarkdownContent' = finalMarkdownContent
                          \o Section(relativeFilePath, FileText(relativeFilePath))
                   /\ console' = console
              ELSE /\ finalMarkdownContent' = Append(finalMarkdownContent,
                          PathComment(NormalizePath(relativeFilePath)))
                   /\ console' = Append(console,
                          Log("warn", "Could not read file", relativeFilePath))
    /\ fileIdx' = fileIdx + 1
    /\ UNCHANGED <<cliOptions, outputSource, userConfig, unreadable, globNegation, clock,
                   pc, finalOutputFilePath, resolvedConfig, patternIdx, matchedFilePaths,
                   filesToInclude, writes, scans, exitCode, run, firstRun>>

\* one iteration of the for-of over filesToInclude: try { read; append } catch { warn }
ReadFile ==
    /\ pc = "read"
    /\ fileIdx <= Len(filesToInclude)
    /\ LET relativeFilePath == filesToInclude[fileIdx]
       IN  /\ reads' = Append(reads, relativeFilePath)
           /\ IF relativeFilePath \notin unreadable
              THEN /\ finalMarkdownContent' = finalMarkdownContent
                          \o Section(relativeFilePath, FileText(relativeFilePath))
                   /\ console' = console
              ELSE /\ finalMarkdownContent' = finalMarkdownContent
                   /\ console' = Append(console,
                          Log("warn", "Could not read file", relativeFilePath))
    /\ fileIdx' = fileIdx + 1
    /\ UNCHANGED <<cliOptions, outputSource, userConfig, unreadable, globNegation, clock,
                   pc, finalOutputFilePath, resolvedConfig, patternIdx, matchedFilePaths,
                   filesToInclude, writes, scans, exitCode, run, firstRun>>

\* mutation: the sentinel is chosen from what was rendered, so a document
\* without sections is replaced by the 'no files matched' sentinel
WriteOutput_SentinelIfNoSections ==
    /\ pc = "read"
    /\ fileIdx > Len(filesToInclude)
    /\ \E ok \in BOOLEAN :
           IF ok
           THEN /\ writes' = Append(writes,
                       [path |-> resolvedConfig.outputFilePath,
                        data |-> IF Len(finalMarkdownContent) = 2
                                 THEN NoMatchSentinel
                                 ELSE finalMarkdownContent])
                /\ console' = Append(console, Log("log", "Successfully wrote context to",
                                                  resolvedConfig.outputFilePath))
                /\ pc' = "returned"
                /\ exitCode' = exitCode
           ELSE /\ writes' = writes
                /\ console' = Append(console, Log("error", "Error writing output file",
                                                  resolvedConfig.outputFilePath))
                /\ pc' = "exited"
                /\ exitCode' = 1
    /\ UNCHANGED <<cliOptions, outputSource, userConfig, unreadable, globNegation, clock,
                   finalOutputFilePath, resolvedConfig, patternIdx, matchedFilePaths,
                   filesToInclude, fileIdx, finalMarkdownContent, scans, reads, run,
                   firstRun>>

\* try { await Bun.write(..); log success } catch { log error; process.exit(1) }
WriteOutput ==
    /\ pc = "read"
    /\ fileIdx > Len(filesToInclude)
    /\ \E ok \in BOOLEAN :
           IF ok
           THEN /\ writes' = Append(writes, [path |-> resolvedConfig.outputFilePath,
                                             data |-> finalMarkdownContent])
                /\ console' = Append(console, Log("log", "Successfully wrote context to",
                                                  resolvedConfig.outputFilePath))
                /\ pc' = "returned"
                /\ exitCode' = exitCode
           ELSE /\ writes' = writes
                /\ console' = Append(console, Log("error", "Error writing output file",
                                                  resolvedConfig.outputFilePath))
                /\ pc' = "exited"
                /\ exitCode' = 1
    /\ UNCHANGED <<cliOptions, outputSource, userConfig, unreadable, globNegation, clock,
                   finalOutputFilePath, resolvedConfig, patternIdx, matchedFilePaths,
                   filesToInclude, fileIdx, finalMarkdownContent, scans, reads, run,
                   firstRun>>

----------------------------------------------------------------------------
(* The end of main *)

\* main() resolved: the process ends with exit code 0
MainReturn ==
    /\ pc = "returned"
    /\ exitCode' = 0
    /\ pc' = "exited"
    /\ UNCHANGED <<cliOptions, outputSource, userConfig, unreadable, globNegation, clock,
                   finalOutputFilePath, resolvedConfig, patternIdx, matchedFilePaths,
                   filesToInclude, fileIdx, finalMarkdownContent, writes, console, scans,
                   reads, run, firstRun>>

\* mutation: the handler logs the error and lets the process end normally
MainCatch_NoExit ==
    /\ pc = "rejected"
    /\ console' = Append(console, Log("error", "An unexpected error occurred in main execution", <<>>))
    /\ exitCode' = 0
    /\ pc' = "exited"
    /\ UNCHANGED <<cliOptions, outputSource, userConfig, unreadable, globNegation, clock,
                   finalOutputFilePath, resolvedConfig, patternIdx, matchedFilePaths,
                   filesToInclude, fileIdx, finalMarkdownContent, writes, scans, reads,
                   run, firstRun>>

\* main().catch(err => { console.error(..); process.exit(1) })
MainCatch ==
    /\ pc = "rejected"
    /\ console' = Append(console, Log("error", "An unexpected error occurred in main execution", <<>>))
    /\ exitCode' = 1
    /\ pc' = "exited"
    /\ UNCHANGED <<cliOptions, outputSource, userConfig, unreadable, globNegation, clock,
                   finalOutputFilePath, resolvedConfig, patternIdx, matchedFilePaths,
                   filesToInclude, fileIdx, finalMarkdownContent, writes, scans, reads,
                   run, firstRun>>

Reorderings(s) ==
    {t \in [1..Len(s) -> Range(s)] :
        \E f \in [1..Len(s) -> 1..Len(s)] :
            /\ \A i, j \in 1..Len(s) : f[i] = f[j] => i = j
            /\ \A i \in 1..Len(s) : t[i] = s[f[i]]}

\* the tool is invoked again in the same working directory, the patterns of
\* the config file in any order
Rerun ==
    /\ pc = "exited"
    /\ run = 1
    /\ run' = 2
    /\ firstRun' = [patterns |-> userConfig.patterns, writes |-> writes]
    /\ clock' = clock + 1
    /\ \E patterns \in Reorderings(userConfig.patterns) :
           userConfig' = [userConfig EXCEPT !.patterns = patterns]
    /\ pc' = "main"
    /\ finalOutputFilePath' = Undefined
    /\ resolvedConfig' = Undefined
    /\ patternIdx' = 1
    /\ matchedFilePaths' = <<>>
    /\ filesToInclude' = <<>>
    /\ fileIdx' = 1
    /\ finalMarkdownContent' = <<>>
    /\ writes' = <<>>
    /\ console' = <<>>
    /\ scans' = 0
    /\ reads' = <<>>
    /\ exitCode' = -1
    /\ UNCHANGED <<cliOptions, outputSource, unreadable, globNegation>>

Next ==
    \/ Main
    \/ NoPatterns
    \/ ScanPattern
    \/ NoMatch
    \/ BuildHeader
    \/ ReadFile
    \/ WriteOutput
    \/ MainReturn
    \/ MainCatch

NextTwice == Next \/ Rerun

Spec == Init /\ [][Next]_vars

SpecResolve == InitResolve /\ [][Next]_vars

SpecTwice == InitTwice /\ [][NextTwice]_vars

----------------------------------------------------------------------------
(* Reading a written document back *)

Exited == pc = "exited"

\* the run wrote its output
Wrote == writes # <<>>

Document == writes[Len(writes)].data

\* a document built by the read loop: the two header chunks come first
Rendered(d) == Len(d) >= 2

NumSections(d) == IF Rendered(d) THEN (Len(d) - 2) \div 4 ELSE 0

SectionPath(d, i) == d[4 * i - 1][2]
SectionTag(d, i)  == d[4 * i][2]
SectionBody(d, i) == d[4 * i + 1][1]

\* p with every backslash shown as a forward slash
SlashForm(p, shown) ==
    /\ Len(shown) = Len(p)
    /\ \A k \in 1..Len(p) : shown[k] = (IF p[k] = "\\" THEN "/" ELSE p[k])
    /\ "\\" \notin Range(shown)

\* body is text without its leading and trailing whitespace, the rest verbatim
TrimmedOf(text, body) ==
    /\ \E i \in 1..(Len(text) + 1) : \E j \in (i - 1)..Len(text) :
           /\ body = SubSeq(text, i, j)
           /\ \A k \in 1..Len(text) : (k < i \/ k > j) => text[k] \in Whitespace
    /\ body # <<>> => (body[1] \notin Whitespace /\ body[Len(body)] \notin Whitespace)

\* the part of a shown path after its last '/'
FileName(shown) ==
    LET slash == Max({0} \cup {k \in 1..Len(shown) : shown[k] = "/"})
    IN  SubSeq(shown, slash + 1, Len(shown))

LastDot(name) == Max({0} \cup {k \in 1..Len(name) : name[k] = "."})

AfterLastDot(name) == SubSeq(name, LastDot(name) + 1, Len(name))

\* the matched paths in ascending code-unit order
SortedMatches ==
    CHOOSE s \in Orders(Range(matchedFilePaths)) :
        \A i, j \in 1..Len(s) : i < j => StringLess(s[i], s[j])

Readable(f) == f \notin unreadable

\* the files that must have a section, in document order
ReadableSorted == SelectSeq(SortedMatches, Readable)

\* chunks 4i-1 .. 4i+2 of d are a whole section for the file f
CompleteSection(d, i, f) ==
    /\ Len(d[4 * i - 1]) = 3
    /\ d[4 * i - 1][1] = <<"// path: ">>
    /\ SlashForm(f, d[4 * i - 1][2])
    /\ d[4 * i - 1][3] = <<"\n">>
    /\ Len(d[4 * i]) = 3
    /\ d[4 * i][1] = <<TripleBacktick>>
    /\ d[4 * i][3] = <<"\n">>
    /\ Len(d[4 * i + 1]) = 2
    /\ TrimmedOf(FileText(f), d[4 * i + 1][1])
    /\ d[4 * i + 1][2] = <<"\n">>
    /\ d[4 * i + 2] = << <<TripleBacktick, "\n\n">> >>

\* d is the header followed by one whole section per readable matched file
SectionsOfReadable(d) ==
    /\ Rendered(d)
    /\ Len(d) = 2 + 4 * Len(ReadableSorted)
    /\ \A i \in 1..Len(ReadableSorted) : CompleteSection(d, i, ReadableSorted[i])

\* the one line of a sentinel document holds the words of phrase, adjacent
Says(d, phrase) ==
    /\ Len(d) = 1
    /\ Len(d[1]) = 1
    /\ \E k \in 0..(Len(d[1][1]) - Len(phrase)) :
           SubSeq(d[1][1], k + 1, k + Len(phrase)) = phrase

ConsoleHas(level, message) ==
    \E k \in 1..Len(console) : console[k][1] = level /\ console[k][2] = message

ReadWarnings(f) ==
    {k \in 1..Len(console) :
        console[k] = Log("warn", "Could not read file", f)}

----------------------------------------------------------------------------
(* Claims *)

\* C1: once main has resolved the output path, it is the --output value
\* whenever --output was supplied on the command line; otherwise the config
\* file's output when the config file sets one; otherwise 'prompt.md'.
C1_OutputPrecedence ==
    pc # "main" =>
        /\ outputSource = "cli" => finalOutputFilePath = cliOptions.output
        /\ (outputSource # "cli" /\ Truthy(userConfig.output)) =>
               finalOutputFilePath = userConfig.output
        /\ (outputSource # "cli" /\ userConfig.output = Undefined) =>
               finalOutputFilePath = <<"prompt.md">>

InclusionMatches ==
    UNION {GlobMatches(userConfig.patterns[k]) :
              k \in {n \in 1..Len(userConfig.patterns) :
                        ~StartsWithBang(userConfig.patterns[n])}}

\* C2: when every read succeeds, the files with a section in the written
\* document are exactly the files matched by the inclusion patterns (those
\* without a leading '!'), each with one section.
C2_SectionsAreInclusionUnion ==
    (Wrote /\ unreadable = {}) =>
        /\ \A f \in InclusionMatches :
               Cardinality({i \in 1..NumSections(Document) :
                               SlashForm(f, SectionPath(Document, i))}) = 1
        /\ \A i \in 1..NumSections(Document) :
               \E f \in InclusionMatches : SlashForm(f, SectionPath(Document, i))

\* C3: a file matching P has no section in the written document when the
\* pattern list holds the exclusion pattern '!P'.
C3_ExcludedHaveNoSection ==
    Wrote =>
        \A k \in 1..Len(userConfig.patterns) :
            StartsWithBang(userConfig.patterns[k]) =>
                \A f \in GlobMatches(Tail(userConfig.patterns[k])) :
                    \A i \in 1..NumSections(Document) :
                        ~SlashForm(f, SectionPath(Document, i))

\* two documents that differ at most in the timestamp of the first header line
SameExceptTimestamp(a, b) ==
    /\ Len(a) = Len(b)
    /\ ~Rendered(a) => a = b
    /\ Rendered(a) =>
           /\ a[1][1] = b[1][1]
           /\ a[1][3] = b[1][3]
           /\ \A k \in 2..Len(a) : a[k] = b[k]

\* C4: the sections of a written document follow the ascending code-unit
\* order of the matched relative paths, whatever the order of the patterns
\* and of the scan; a second run over the same patterns (in any order) and
\* the same files writes the same document but for the timestamp.
C4_SortedAndReproducible ==
    /\ (Wrote /\ Rendered(Document)) =>
           /\ NumSections(Document) = Len(ReadableSorted)
           /\ \A i \in 1..Len(ReadableSorted) :
                  SlashForm(ReadableSorted[i], SectionPath(Document, i))
    /\ (run = 2 /\ firstRun.writes # <<>> /\ Wrote) =>
           SameExceptTimestamp(firstRun.writes[1].data, Document)

C4_Witness ==
    /\ run = 2
    /\ Wrote
    /\ firstRun.writes # <<>>
    /\ NumSections(Document) >= 2
    /\ matchedFilePaths # filesToInclude
    /\ firstRun.patterns # userConfig.patterns
    /\ firstRun.writes[1].data[1] # Document[1]

\* C5: a written document holds one whole section for every matched file
\* whose read succeeded, in sorted order, and nothing for a file whose read
\* failed; each failed read is warned about once; after the reads the run
\* attempts the write, and it ends non-zero only when that write failed.
C5_ReadFailuresRecovered ==
    /\ (Wrote /\ Rendered(Document)) =>
           /\ SectionsOfReadable(Document)
           /\ \A f \in FileSystem :
                  Cardinality(ReadWarnings(f)) =
                      (IF f \in Range(filesToInclude) /\ f \in unreadable THEN 1 ELSE 0)
    /\ pc = "read" => exitCode = -1
    /\ (Exited /\ filesToInclude # <<>>) =>
           /\ reads = filesToInclude
           /\ exitCode = 0 <=> Wrote
           /\ exitCode # 0 => ConsoleHas("error", "Error writing output file")

C5_Witness ==
    /\ Exited
    /\ exitCode = 0
    /\ Len(filesToInclude) = 3
    /\ unreadable = {F_win}
    /\ NumSections(Document) = 2
    /\ ReadWarnings(F_win) # {}

\* C6: a run whose write of the output failed, on any of the three writing
\* paths, ends with exit code 1 and never logs success; exit code 0 is
\* reached only after a write that succeeded.
C6_WriteFailureFatal ==
    /\ (Exited /\ ~Wrote) =>
           /\ exitCode = 1
           /\ ~ConsoleHas("log", "Successfully wrote context to")
    /\ pc = "rejected" =>
           /\ ~Wrote
           /\ exitCode = -1
           /\ ~ConsoleHas("log", "Successfully wrote context to")
    /\ exitCode = 0 => Wrote

C6_Witness ==
    /\ Exited
    /\ ~Wrote
    /\ exitCode = 1
    /\ userConfig.patterns # <<>>
    /\ ConsoleHas("error", "An unexpected error occurred in main execution")

\* C7: when a non-empty pattern list has been scanned and nothing matched,
\* no file is read, the only document written is the one-line 'No files
\* matched' sentinel at the output path, without header or sections, the
\* function returns and the run ends with exit code 0.
C7_NoMatchSentinel ==
    (/\ userConfig.patterns # <<>>
     /\ pc \in {"returned", "rejected", "exited"}
     /\ Range(matchedFilePaths) = {}) =>
        /\ reads = <<>>
        /\ scans = Len(userConfig.patterns)
        /\ pc = "returned" => Wrote
        /\ Wrote =>
               /\ Len(writes) = 1
               /\ writes[1].path = resolvedConfig.outputFilePath
               /\ Says(Document, <<"No", "files", "matched">>)
        /\ Exited => (exitCode = 0 <=> Wrote)

C7_Witness ==
    /\ Exited
    /\ exitCode = 0
    /\ Len(userConfig.patterns) = 2
    /\ scans = 2
    /\ Wrote
    /\ Document = NoMatchSentinel

\* what C8 states of every run with an empty pattern list, the sentinel
\* document saying phrase
EmptyPatternRun(phrase) ==
    (pc # "main" /\ userConfig.patterns = <<>>) =>
        /\ scans = 0
        /\ reads = <<>>
        /\ pc = "returned" => Wrote
        /\ Wrote =>
               /\ Len(writes) = 1
               /\ writes[1].path = resolvedConfig.outputFilePath
               /\ Says(Document, phrase)
        /\ Exited => (exitCode = 0 <=> Wrote)

FenceOfEverySection(tag(_)) ==
    (Wrote /\ Rendered(Document)) =>
        /\ NumSections(Document) = Len(ReadableSorted)
        /\ \A i \in 1..NumSections(Document) :
               /\ SectionTag(Document, i) = tag(FileName(SectionPath(Document, i)))
               /\ TrimmedOf(FileText(ReadableSorted[i]), SectionBody(Document, i))

TagAfterLastDot(name) == IF LastDot(name) = 0 THEN <<>> ELSE AfterLastDot(name)

TagOfExtension(name) == IF LastDot(name) <= 1 THEN <<>> ELSE AfterLastDot(name)

\* C9 as stated: the language tag of every section is what follows the last
\* '.' of the file name, empty when the name has no '.'; the body is the
\* file's text without leading and trailing whitespace.
C9_TagIsAfterLastDot == FenceOfEverySection(TagAfterLastDot)

\* C9 amended: the language tag is what follows the last '.' of the file
\* name unless that '.' is the name's first character; it is empty for a
\* name without '.' and for a name whose only '.' leads it ('.env'); the
\* body is the file's text without leading and trailing whitespace.
C9_TagIsExtension == FenceOfEverySection(TagOfExtension)

C9_Witness ==
    /\ Wrote
    /\ NumSections(Document) = 3
    /\ SectionTag(Document, 1) = <<>>
    /\ SectionPath(Document, 1) = F_dot
    /\ SectionTag(Document, 2) = <<>>
    /\ SectionTag(Document, 3) = <<"t", "s">>
    /\ SectionBody(Document, 3) = <<"x", " ", "\n", "y">>

\* a path with its ".." segments applied
RECURSIVE Collapse(_, _)
Collapse(done, rest) ==
    IF rest = <<>> THEN done
    ELSE IF Head(rest) = ".." THEN Collapse(SubSeq(done, 1, Len(done) - 1), Tail(rest))
    ELSE Collapse(Append(done, Head(rest)), Tail(rest))

\* what C10 states of every written document of the read loop, the path
\* annotation starting with prefix
DocumentLayout(prefix) ==
    (Wrote /\ Rendered(Document)) =>
        /\ Len(Document[1]) = 3
        /\ Document[1][1] = <<"<!-- Context generated by ai-context on ">>
        /\ Document[1][2] = <<ToString(clock)>>
        /\ Document[1][3] = <<" -->\n">>
        /\ Len(Document[2]) = 3
        /\ Document[2][1] = <<"<!-- Config file: ">>
        /\ Collapse(<<>>, Cwd \o Document[2][2]) = PathResolve(cliOptions.config)
        /\ Document[2][3] = <<" -->\n\n">>
        /\ SectionsOfReadable(Document)
        /\ \A i \in 1..NumSections(Document) : Document[4 * i - 1][1] = <<prefix>>

\* C10 as stated: two header lines and a blank line, then one section per
\* file read, each a line 'path: <relative path>' with forward slashes, the
\* opening fence with the tag, the trimmed content, the closing fence and a
\* blank line.
C10_PathLine == DocumentLayout("path: ")

\* C10 amended: the same layout, the path line being '// path: <relative
\* path>'.
C10_CommentedPathLine == DocumentLayout("// path: ")

C10_Witness ==
    /\ Wrote
    /\ NumSections(Document) >= 2
    /\ \E i \in 1..NumSections(Document) :
           SectionPath(Document, i) = <<"a", ".", "d", "/", "c">>
    /\ Document[2][2] = <<"..", "etc", "c.ts">>

\* C11: after the scan of a non-empty pattern list, the 'no files matched'
\* sentinel is what is written exactly when the matched set is empty, and it
\* is chosen before any file is read; when the matched set is not empty and
\* every read fails, the written document is the two header lines alone,
\* without sections and without sentinel, success is logged and the run
\* ends with exit code 0.
C11_SentinelFromMatchedSet ==
    /\ (userConfig.patterns # <<>> /\ Wrote) =>
           /\ Document = NoMatchSentinel <=> Range(matchedFilePaths) = {}
           /\ Document = NoMatchSentinel => reads = <<>>
    /\ (Wrote /\ Range(matchedFilePaths) # {} /\ Range(matchedFilePaths) \subseteq unreadable) =>
           /\ Len(Document) = 2
           /\ Document[1][1] = <<"<!-- Context generated by ai-context on ">>
           /\ Document[2][1] = <<"<!-- Config file: ">>
           /\ ~Says(Document, <<"No", "files", "matched">>)
           /\ Range(reads) = Range(matchedFilePaths)
           /\ ConsoleHas("log", "Successfully wrote context to")
           /\ Exited => exitCode = 0

C11_Witness ==
    /\ Exited
    /\ exitCode = 0
    /\ Wrote
    /\ Len(filesToInclude) >= 2
    /\ Range(filesToInclude) \subseteq unreadable
    /\ Len(Document) = 2
    /\ ConsoleHas("log", "Successfully wrote context to")

====
